---- MODULE Spec2Model ----
(***************************************************************************)
(* The telemetry ingestion gateway of services/rust-ingest: the HTTP       *)
(* handler ingest_telemetry, the pipeline handle_telemetry, the delivery   *)
(* call send_message, the pure helper validate_metrics and the wire        *)
(* encoding of the Telemetry record.                                       *)
(*                                                                         *)
(* A request is a concurrent unit of work.  Everything a handler does up   *)
(* to the `.await` of the delivery future runs without suspension, so it   *)
(* is one action (IngestTelemetry); the broker's answer and the handler's  *)
(* resumption are separate actions.                                        *)
(***************************************************************************)
EXTENDS Integers, Sequences, FiniteSets, TLC

\* ------------------------------------------------------------- bounds
\* Number of requests the server receives in a run.
NReq == 2
\* Largest number of entries of a metrics mapping given to validate_metrics
\* and to the encoder.
MaxMetrics == 2
\* Width, in bits, of the model's integers on the wire (the varint of ts is
\* the two's complement of the value).
IntBits == 16

Reqs == 1 .. NReq

\* ------------------------------------------------------------- values
\* An f64: a finite value (an integer here) or one of NaN, +inf, -inf.
Fin(n) == [cls |-> "finite", n |-> n]
NaN == [cls |-> "nan", n |-> 0]
PosInf == [cls |-> "inf", n |-> 1]
NegInf == [cls |-> "inf", n |-> -1]

is_finite(v) == v.cls = "finite"

\* (lo..=hi).contains(&v): false for NaN and for both infinities.
RangeContains(lo, hi, v) == v.cls = "finite" /\ lo <= v.n /\ v.n <= hi

\* Option<T>
None == [some |-> FALSE, v |-> 0]
Some(x) == [some |-> TRUE, v |-> x]
NoneBytes == [some |-> FALSE, v |-> <<>>]

\* HashMap<String, f64>
EmptyMetrics == [k \in {} |-> Fin(0)]
is_empty(m) == DOMAIN m = {}

\* The sequences that enumerate the set S once each: the orders in which a
\* HashMap with key set S can be iterated.
Orders(S) == {o \in [1 .. Cardinality(S) -> S] : \A k \in S : \E i \in DOMAIN o : o[i] = k}

\* ------------------------------------------------------ Telemetry record
\* proto::telemetry::Telemetry, as built at server.rs:113-120.
Telemetry(d, ts, m, raw) == [device_id |-> d, ts |-> ts, metrics |-> m, raw |-> raw]
DefaultTelemetry == Telemetry("", 0, EmptyMetrics, <<>>)

\* ------------------------------------------------------ wire encoding
\* prost's Message::encode / Message::decode for Telemetry.  An encoded
\* message is the sequence of its wire fields; a field holds its number and
\* its payload.  A scalar field that holds its default ("" / 0 / empty) is not
\* written, and decode starts from the defaults.
Modulus == 2 ^ IntBits
\* int64 on the wire: the varint of the value cast to unsigned.
encode_varint(n) == IF n < 0 THEN n + Modulus ELSE n
decode_varint(u) == IF u >= Modulus \div 2 THEN u - Modulus ELSE u

Field(tag, s, i, v, b) == [tag |-> tag, str |-> s, int |-> i, val |-> v, bytes |-> b]

\* order: the order in which the metrics HashMap is iterated.
encode(t, order) ==
    (IF t.device_id # "" THEN <<Field(1, t.device_id, 0, Fin(0), <<>>)>> ELSE <<>>)
    \o (IF t.ts # 0 THEN <<Field(2, "", encode_varint(t.ts), Fin(0), <<>>)>> ELSE <<>>)
    \o [i \in 1 .. Len(order) |-> Field(3, order[i], 0, t.metrics[order[i]], <<>>)]
    \o (IF t.raw # <<>> THEN <<Field(4, "", 0, Fin(0), t.raw)>> ELSE <<>>)

\* insert as a bug would have it: the entry replaces the mapping.
insert_overwrite(m, k, v) == [x \in {k} |-> v]

insert(m, k, v) == [x \in DOMAIN m \cup {k} |-> IF x = k THEN v ELSE m[x]]

merge_field(t, f) ==
    CASE f.tag = 1 -> [t EXCEPT !.device_id = f.str]
      [] f.tag = 2 -> [t EXCEPT !.ts = decode_varint(f.int)]
      [] f.tag = 3 -> [t EXCEPT !.metrics = insert(t.metrics, f.str, f.val)]
      [] f.tag = 4 -> [t EXCEPT !.raw = f.bytes]
      [] OTHER -> t

RECURSIVE decode_from(_, _)
decode_from(t, fields) ==
    IF fields = <<>> THEN t
    ELSE decode_from(merge_field(t, Head(fields)), Tail(fields))

decode(fields) == decode_from(DefaultTelemetry, fields)

\* telemetry.encode(&mut buf)? with buf a Vec<u8>: encode fails only when the
\* buffer cannot grow to the encoded length, which a Vec always can.
encode_fails(t) == FALSE

\* ------------------------------------------------------ the server's state
VARIABLES
    pc,         \* per request: "idle" (not received), "awaiting" (suspended in
                \* send_message), "done" (answered), "cancelled" (future dropped)
    req,        \* per request: the deserialized TelemetryRequest
    held,       \* per request: the Telemetry the suspended handler owns
    sends,      \* per request: how many times send_message was invoked
    queue,      \* per request: its message in the producer's queue, if any
    delivery,   \* per request: the state of its delivery future
    log,        \* the topic as consumers see it: the acknowledged messages
    resp,       \* per request: the HTTP response, status 0 while there is none
    \* one call of validate_metrics
    vm_metrics, \* the mapping under validation
    vm_todo,    \* the keys the loop has not visited yet
    vm_result,  \* the value returned, kind "running" until it returns
    vm_warned,  \* the keys a warning was logged for
    \* one round trip through the encoder
    rt_record,  \* the record
    rt_bytes,   \* encode's output
    rt_decoded, \* decode's output
    rt_pc,      \* "start", "encoded", "decoded"
    \* one call of a helper function
    call_arg,   \* its arguments
    call_ret,   \* the value it returned
    call_pc     \* "start" before the call, "returned" after it

server_vars == <<pc, req, held, sends, queue, delivery, log, resp>>
vm_vars == <<vm_metrics, vm_todo, vm_result, vm_warned>>
rt_vars == <<rt_record, rt_bytes, rt_decoded, rt_pc>>
call_vars == <<call_arg, call_ret, call_pc>>
vars == <<server_vars, vm_vars, rt_vars, call_vars>>

\* ------------------------------------------------------ requests
TelemetryRequest(d, ts, m, raw) == [device_id |-> d, ts |-> ts, metrics |-> m, raw |-> raw]
NoRequest == TelemetryRequest("", None, EmptyMetrics, NoneBytes)

DeviceIds == {"", "dev-1"}
\* The optional fields ts and raw, absent together or present together (the
\* handler resolves each on its own, server.rs:115-119).
OptionalInputs ==
    { [ts |-> None, raw |-> NoneBytes],
      [ts |-> Some(5), raw |-> [some |-> TRUE, v |-> <<7>>]] }
MetricsInputs ==
    { EmptyMetrics,
      [k \in {"temperature", "humidity"} |-> IF k = "temperature" THEN Fin(23) ELSE Fin(45)],
      [k \in {"battery_level"} |-> Fin(150)],
      [k \in {""} |-> Fin(1)] }
Payloads ==
    { TelemetryRequest(d, o.ts, m, o.raw) :
        d \in DeviceIds, o \in OptionalInputs, m \in MetricsInputs }
\* chrono::Utc::now().timestamp_millis() at the time of receipt
Clock == {1000}

\* ------------------------------------------------------ responses
NoResponse == [status |-> 0, success |-> FALSE, error |-> "", details |-> "", device_id |-> ""]
TelemetryResponse(d) ==
    [status |-> 200, success |-> TRUE, error |-> "", details |-> "", device_id |-> d]
ErrorResponse(status, error, details) ==
    [status |-> status, success |-> FALSE, error |-> error, details |-> details, device_id |-> ""]

\* ------------------------------------------------------ ingest_telemetry
\* request_error without the check of the device id.
request_error_metrics_only(payload) ==
    IF is_empty(payload.metrics) THEN "metrics cannot be empty" ELSE ""

\* request_error without the check of the metrics.
request_error_device_only(payload) ==
    IF payload.device_id = "" THEN "device_id is required" ELSE ""

\* The two checks at the head of ingest_telemetry: the error of the 400
\* response, "" when the request passes both.
request_error(payload) ==
    IF payload.device_id = "" THEN "device_id is required"
    ELSE IF is_empty(payload.metrics) THEN "metrics cannot be empty"
    ELSE ""

\* build_telemetry with the supplied ts ignored.
build_telemetry_now(payload, now) ==
    Telemetry(payload.device_id,
              now,
              payload.metrics,
              IF payload.raw.some THEN payload.raw.v ELSE <<>>)

\* The Telemetry built from the request; now is the clock at receipt.
build_telemetry(payload, now) ==
    Telemetry(payload.device_id,
              IF payload.ts.some THEN payload.ts.v ELSE now,
              payload.metrics,
              IF payload.raw.some THEN payload.raw.v ELSE <<>>)

\* handle_telemetry up to the send: the error it returns before any send,
\* "" when it goes on to send_message.
handle_telemetry_error(t) ==
    IF t.device_id = "" THEN "Device ID cannot be empty"
    ELSE IF is_empty(t.metrics) THEN "Metrics cannot be empty"
    ELSE IF encode_fails(t) THEN "failed to encode Protobuf message"
    ELSE ""

\* message_key with the topic passed where the key belongs.
message_key_topic(t) == "telemetry"

\* The key send_message is given: &telemetry.device_id.
message_key(t) == t.device_id

NoMessage == [full |-> FALSE, key |-> "", payload |-> <<>>]
Message(key, payload) == [full |-> TRUE, key |-> key, payload |-> payload]
NoHeld == [live |-> FALSE, t |-> DefaultTelemetry]

\* The kinds of KafkaError the delivery future resolves to.
DeliveryErrors == {"Timeout", "BrokerUnavailable", "Rejected"}

\* The status and body for the value handle_telemetry returned.
handler_response(payload, result) ==
    IF result = "Ok" THEN TelemetryResponse(payload.device_id)
    ELSE ErrorResponse(500, "Failed to process telemetry", result)

Respond(r, response) ==
    /\ resp' = [resp EXCEPT ![r] = response]
    /\ pc' = [pc EXCEPT ![r] = "done"]
    /\ held' = [held EXCEPT ![r] = NoHeld]

\* A request arrives and its handler runs to its first suspension: it is
\* answered 400 or 500 at once, or its message is in the producer's queue and
\* the handler waits for the delivery.  enqueued: whether the producer's queue
\* has room (send's queue timeout is zero, so a full queue is an error).
IngestTelemetry(r) ==
    /\ pc[r] = "idle"
    /\ \A q \in Reqs : q < r => pc[q] # "idle"
    /\ \E payload \in Payloads, now \in Clock, enqueued \in BOOLEAN :
        LET e == request_error(payload)
            t == build_telemetry(payload, now)
            herr == handle_telemetry_error(t)
        IN  /\ req' = [req EXCEPT ![r] = payload]
            /\ IF e # "" THEN
                    /\ Respond(r, ErrorResponse(400, e, ""))
                    /\ UNCHANGED <<sends, queue, delivery>>
               ELSE IF herr # "" THEN
                    /\ Respond(r, handler_response(payload, herr))
                    /\ UNCHANGED <<sends, queue, delivery>>
               ELSE \E order \in Orders(DOMAIN t.metrics) :
                    /\ sends' = [sends EXCEPT ![r] = @ + 1]
                    /\ IF enqueued THEN
                            /\ queue' = [queue EXCEPT ![r] = Message(message_key(t), encode(t, order))]
                            /\ delivery' = [delivery EXCEPT ![r] = "pending"]
                            /\ held' = [held EXCEPT ![r] = [live |-> TRUE, t |-> t]]
                            /\ pc' = [pc EXCEPT ![r] = "awaiting"]
                            /\ UNCHANGED resp
                       ELSE
                            /\ delivery' = [delivery EXCEPT ![r] = "QueueFull"]
                            /\ Respond(r, handler_response(payload, "QueueFull"))
                            /\ UNCHANGED queue
    /\ UNCHANGED <<log, vm_vars, rt_vars, call_vars>>

\* The delivery future of a message the producer is done with: it resolves
\* to the outcome unless the handler that held it was dropped.
resolve(d, outcome) == IF d = "pending" THEN outcome ELSE d

\* BrokerAck with the topic written in the order the requests were received.
BrokerAck_fifo(r) ==
    /\ queue[r].full
    /\ \A q \in Reqs : q < r => ~queue[q].full
    /\ log' = Append(log, [req |-> r, key |-> queue[r].key, payload |-> queue[r].payload])
    /\ queue' = [queue EXCEPT ![r] = NoMessage]
    /\ delivery' = [delivery EXCEPT ![r] = resolve(@, "acked")]
    /\ UNCHANGED <<pc, req, held, sends, resp, vm_vars, rt_vars, call_vars>>

\* The broker acknowledges the message: it is in the topic, and the delivery
\* future resolves to Ok.
BrokerAck(r) ==
    /\ queue[r].full
    /\ log' = Append(log, [req |-> r, key |-> queue[r].key, payload |-> queue[r].payload])
    /\ queue' = [queue EXCEPT ![r] = NoMessage]
    /\ delivery' = [delivery EXCEPT ![r] = resolve(@, "acked")]
    /\ UNCHANGED <<pc, req, held, sends, resp, vm_vars, rt_vars, call_vars>>

\* The delivery fails (no acknowledgment within message.timeout.ms, no broker
\* reachable, or the write refused): the delivery future resolves to the error.
BrokerFail(r) ==
    /\ queue[r].full
    /\ \E kind \in DeliveryErrors : delivery' = [delivery EXCEPT ![r] = resolve(@, kind)]
    /\ queue' = [queue EXCEPT ![r] = NoMessage]
    /\ UNCHANGED <<pc, req, held, sends, log, resp, vm_vars, rt_vars, call_vars>>

\* send_result with the delivery's error ignored.
send_result_ignore_error(d) == "Ok"

\* The value send_message(...).await? gives handle_telemetry for a resolved
\* delivery future.
send_result(d) == IF d = "acked" THEN "Ok" ELSE d

\* Resume with a retry: a failed delivery is sent again instead of answered.
Resume_retry(r) ==
    /\ pc[r] = "awaiting"
    /\ delivery[r] # "pending"
    /\ IF delivery[r] = "acked" THEN
            /\ Respond(r, handler_response(req[r], "Ok"))
            /\ UNCHANGED <<sends, queue, delivery>>
       ELSE \E order \in Orders(DOMAIN held[r].t.metrics) :
            /\ sends' = [sends EXCEPT ![r] = @ + 1]
            /\ queue' = [queue EXCEPT ![r] = Message(message_key(held[r].t), encode(held[r].t, order))]
            /\ delivery' = [delivery EXCEPT ![r] = "pending"]
            /\ UNCHANGED <<pc, held, resp>>
    /\ UNCHANGED <<req, log, vm_vars, rt_vars, call_vars>>

\* Resume of a handler whose future was dropped as well.
Resume_after_cancel(r) ==
    /\ pc[r] \in {"awaiting", "cancelled"}
    /\ delivery[r] # "pending"
    /\ Respond(r, handler_response(req[r], send_result(delivery[r])))
    /\ UNCHANGED <<req, sends, queue, delivery, log, vm_vars, rt_vars, call_vars>>

\* Resume on an acknowledgment only: a failed delivery wakes nobody.
Resume_acked_only(r) ==
    /\ pc[r] = "awaiting"
    /\ delivery[r] = "acked"
    /\ Respond(r, handler_response(req[r], send_result(delivery[r])))
    /\ UNCHANGED <<req, sends, queue, delivery, log, vm_vars, rt_vars, call_vars>>

\* The handler resumes with the resolved delivery and answers.
Resume(r) ==
    /\ pc[r] = "awaiting"
    /\ delivery[r] # "pending"
    /\ Respond(r, handler_response(req[r], send_result(delivery[r])))
    /\ UNCHANGED <<req, sends, queue, delivery, log, vm_vars, rt_vars, call_vars>>

\* The client goes away while the handler is suspended: the handler's future is
\* dropped with what it owns, the delivery future included; the message stays
\* with the producer.
Cancel(r) ==
    /\ pc[r] = "awaiting"
    /\ pc' = [pc EXCEPT ![r] = "cancelled"]
    /\ held' = [held EXCEPT ![r] = NoHeld]
    /\ delivery' = [delivery EXCEPT ![r] = "dropped"]
    /\ UNCHANGED <<req, sends, queue, log, resp, vm_vars, rt_vars, call_vars>>

VmIdle ==
    /\ vm_metrics = EmptyMetrics
    /\ vm_todo = {}
    /\ vm_result = [kind |-> "idle", msg |-> "", key |-> ""]
    /\ vm_warned = {}

RtIdle ==
    /\ rt_record = DefaultTelemetry
    /\ rt_bytes = <<>>
    /\ rt_decoded = DefaultTelemetry
    /\ rt_pc = "idle"

CallIdle ==
    /\ call_arg = <<>>
    /\ call_ret = <<>>
    /\ call_pc = "idle"

ServerInit ==
    /\ pc = [r \in Reqs |-> "idle"]
    /\ req = [r \in Reqs |-> NoRequest]
    /\ held = [r \in Reqs |-> NoHeld]
    /\ sends = [r \in Reqs |-> 0]
    /\ queue = [r \in Reqs |-> NoMessage]
    /\ delivery = [r \in Reqs |-> "none"]
    /\ log = <<>>
    /\ resp = [r \in Reqs |-> NoResponse]

Init == ServerInit /\ VmIdle /\ RtIdle /\ CallIdle

Next ==
    \E r \in Reqs :
        \/ IngestTelemetry(r)
        \/ BrokerAck(r)
        \/ BrokerFail(r)
        \/ Resume(r)
        \/ Cancel(r)

Spec == Init /\ [][Next]_vars

\* The producer is done with a queued message in the end, by an
\* acknowledgment or by a failure: message.timeout.ms bounds the time a
\* message stays with it.  The runtime polls a handler whose delivery future
\* is resolved.
Fairness ==
    \A r \in Reqs : WF_vars(BrokerAck(r) \/ BrokerFail(r)) /\ WF_vars(Resume(r))

\* The requests of the behaviours checked for progress: no ts and raw, at
\* most one metric.
LivePayloads == {p \in Payloads : ~p.ts.some /\ Cardinality(DOMAIN p.metrics) <= 1}

LiveNext ==
    \E r \in Reqs :
        \/ IngestTelemetry(r) /\ req'[r] \in LivePayloads
        \/ BrokerAck(r)
        \/ BrokerFail(r)
        \/ Resume(r)
        \/ Cancel(r)

FairSpec == Init /\ [][LiveNext]_vars /\ Fairness

\* ------------------------------------------------------ validate_metrics
\* Inputs of the validator: every mapping of at most MaxMetrics entries over
\* these names and values.
ValidateKeys == {"", "temperature", "humidity", "battery_level", "x"}
ValidateValues ==
    {Fin(-101), Fin(-1), Fin(0), Fin(50), Fin(100), Fin(101), Fin(999), NaN, PosInf, NegInf}
MetricMaps ==
    UNION { [D -> ValidateValues] :
              D \in {S \in SUBSET ValidateKeys : Cardinality(S) <= MaxMetrics} }

Running == [kind |-> "running", msg |-> "", key |-> ""]
Ok == [kind |-> "Ok", msg |-> "", key |-> ""]
Err(msg, key) == [kind |-> "Err", msg |-> msg, key |-> key]

\* entry_error without the check of the value being finite.
entry_error_no_finite_check(key, value) ==
    IF key = "" THEN Err("Metric name cannot be empty", "")
    ELSE IF key = "battery_level" /\ ~RangeContains(0, 100, value)
         THEN Err("Battery level must be between 0-100%", "")
    ELSE Ok

\* entry_error with the battery range exclusive at both ends.
entry_error_exclusive(key, value) ==
    IF key = "" THEN Err("Metric name cannot be empty", "")
    ELSE IF ~is_finite(value) THEN Err("Invalid metric value", key)
    ELSE IF key = "battery_level" /\ ~(0 < value.n /\ value.n < 100)
         THEN Err("Battery level must be between 0-100%", "")
    ELSE Ok

\* entry_error with the temperature range a failure instead of a warning.
entry_error_temperature_hard(key, value) ==
    IF key = "" THEN Err("Metric name cannot be empty", "")
    ELSE IF ~is_finite(value) THEN Err("Invalid metric value", key)
    ELSE IF key = "temperature" /\ ~RangeContains(-100, 200, value)
         THEN Err("Temperature out of range", "")
    ELSE IF key = "battery_level" /\ ~RangeContains(0, 100, value)
         THEN Err("Battery level must be between 0-100%", "")
    ELSE Ok

\* One pass of the loop body for the entry (key, value): the error it returns
\* with, Ok when the loop goes on to the next entry.
entry_error(key, value) ==
    IF key = "" THEN Err("Metric name cannot be empty", "")
    ELSE IF ~is_finite(value) THEN Err("Invalid metric value", key)
    ELSE IF key = "battery_level" /\ ~RangeContains(0, 100, value)
         THEN Err("Battery level must be between 0-100%", "")
    ELSE Ok

\* Whether the loop body logs a warning for the entry.
entry_warns(key, value) ==
    \/ key = "temperature" /\ ~RangeContains(-100, 200, value)
    \/ key = "humidity" /\ ~RangeContains(0, 100, value)

\* The loop visits one more entry, in the HashMap's order (any order).
ValidateVisit ==
    /\ vm_result = Running
    /\ \E key \in vm_todo :
        LET e == entry_error(key, vm_metrics[key]) IN
        IF e # Ok THEN
            /\ vm_result' = e
            /\ UNCHANGED <<vm_todo, vm_warned>>
        ELSE
            /\ vm_todo' = vm_todo \ {key}
            /\ vm_warned' = IF entry_warns(key, vm_metrics[key])
                            THEN vm_warned \cup {key} ELSE vm_warned
            /\ UNCHANGED vm_result
    /\ UNCHANGED <<vm_metrics, server_vars, rt_vars, call_vars>>

\* The loop is over: Ok(()).
ValidateReturn ==
    /\ vm_result = Running
    /\ vm_todo = {}
    /\ vm_result' = Ok
    /\ UNCHANGED <<vm_metrics, vm_todo, vm_warned, server_vars, rt_vars, call_vars>>

ValidateInit ==
    /\ ServerInit /\ RtIdle /\ CallIdle
    /\ vm_metrics \in MetricMaps
    /\ vm_todo = DOMAIN vm_metrics
    /\ vm_result = Running
    /\ vm_warned = {}

ValidateNext == ValidateVisit \/ ValidateReturn

SpecValidate == ValidateInit /\ [][ValidateNext]_vars

\* ------------------------------------------------------ encode, then decode
\* Records that satisfy the data model's invariants: a device id, a timestamp,
\* at least one metric, finite values.
CodecKeys == {"", "temperature", "battery_level"}
CodecValues == {Fin(0), Fin(23), Fin(-4)}
CodecRecords ==
    { Telemetry(d, ts, m, raw) :
        d \in {"dev-1", "dev-2"},
        ts \in {-(Modulus \div 2), -1, 0, 5, Modulus \div 2 - 1},
        m \in UNION { [D -> CodecValues] :
                        D \in {S \in SUBSET CodecKeys : S # {} /\ Cardinality(S) <= MaxMetrics} },
        raw \in {<<>>, <<7>>} }

RoundTripEncode ==
    /\ rt_pc = "start"
    /\ \E order \in Orders(DOMAIN rt_record.metrics) :
        rt_bytes' = encode(rt_record, order)
    /\ rt_pc' = "encoded"
    /\ UNCHANGED <<rt_record, rt_decoded, server_vars, vm_vars, call_vars>>

RoundTripDecode ==
    /\ rt_pc = "encoded"
    /\ rt_decoded' = decode(rt_bytes)
    /\ rt_pc' = "decoded"
    /\ UNCHANGED <<rt_record, rt_bytes, server_vars, vm_vars, call_vars>>

CodecInit ==
    /\ ServerInit /\ VmIdle /\ CallIdle
    /\ rt_record \in CodecRecords
    /\ rt_bytes = <<>>
    /\ rt_decoded = DefaultTelemetry
    /\ rt_pc = "start"

CodecNext == RoundTripEncode \/ RoundTripDecode

SpecCodec == CodecInit /\ [][CodecNext]_vars

\* ------------------------------------------------------ building the record
\* The requests and clock values the record is built from.
BuildPayloads ==
    { TelemetryRequest(d, ts, m, raw) :
        d \in DeviceIds,
        ts \in {None, Some(-1), Some(0), Some(5)},
        m \in { EmptyMetrics,
                [k \in {"temperature"} |-> Fin(23)],
                [k \in {"battery_level", "x"} |-> IF k = "x" THEN NaN ELSE Fin(150)] },
        raw \in {NoneBytes, [some |-> TRUE, v |-> <<>>], [some |-> TRUE, v |-> <<7, 255>>]} }
BuildClock == {1000, 1001}

\* ingest_telemetry builds the record of a request that passed its two checks.
BuildTelemetry ==
    /\ call_pc = "start"
    /\ request_error(call_arg.payload) = ""
    /\ call_ret' = build_telemetry(call_arg.payload, call_arg.now)
    /\ call_pc' = "returned"
    /\ UNCHANGED <<call_arg, server_vars, vm_vars, rt_vars>>

BuildInit ==
    /\ ServerInit /\ VmIdle /\ RtIdle
    /\ call_arg \in [payload : BuildPayloads, now : BuildClock]
    /\ call_ret = DefaultTelemetry
    /\ call_pc = "start"

SpecBuild == BuildInit /\ [][BuildTelemetry]_vars

\* ------------------------------------------------------ enrich_telemetry
\* Largest length of the raw bytes given to enrich_telemetry.
MaxRaw == 2
\* Bytes: 65 is "A"; 195 169 is the two-byte form of U+00E9; 195 or 169 alone,
\* and 255 anywhere, are not valid UTF-8.
EnrichBytes == {65, 195, 169, 255}
RawInputs == UNION { [1 .. n -> EnrichBytes] : n \in 0 .. MaxRaw }

is_continuation(b) == 128 <= b /\ b <= 191

\* String::from_utf8_lossy over one- and two-byte sequences: the code points
\* of the text, U+FFFD (65533) for each byte that starts no valid sequence.
RECURSIVE from_utf8_lossy(_)
from_utf8_lossy(bytes) ==
    IF bytes = <<>> THEN <<>>
    ELSE LET b == Head(bytes) IN
         IF b < 128 THEN <<b>> \o from_utf8_lossy(Tail(bytes))
         ELSE IF 194 <= b /\ b <= 223 /\ Len(bytes) >= 2 /\ is_continuation(bytes[2])
              THEN <<(b - 192) * 64 + (bytes[2] - 128)>> \o from_utf8_lossy(Tail(Tail(bytes)))
         ELSE <<65533>> \o from_utf8_lossy(Tail(bytes))

\* One member of the envelope object.
Member(name, str, int, chars) == [name |-> name, str |-> str, int |-> int, chars |-> chars]

\* serde_json::to_vec of a json! object whose members are strings cannot fail.
to_vec_fails(members) == FALSE

\* serde_json::to_vec(&json!({...})).unwrap_or_default(): the object's
\* members, nothing on failure.
envelope(now, node_id, raw) ==
    LET members == << Member("ingested_at", "", now, <<>>),
                      Member("ingestion_node", node_id, 0, <<>>),
                      Member("original_raw", "", 0, from_utf8_lossy(raw)) >>
    IN  IF to_vec_fails(members) THEN <<>> ELSE members

\* enrich_telemetry as a bug would have it: the timestamp is set to the
\* ingestion time as well.
enrich_telemetry_restamp(t, node_id, now) ==
    [t EXCEPT !.raw = envelope(now, node_id, t.raw), !.ts = now]

\* now: chrono::Utc::now() at the call.
enrich_telemetry(t, node_id, now) ==
    [t EXCEPT !.raw = envelope(now, node_id, t.raw)]

EnrichRecords ==
    { Telemetry(d, ts, m, raw) :
        d \in DeviceIds,
        ts \in {0, 5},
        m \in { EmptyMetrics,
                [k \in {"temperature"} |-> Fin(23)],
                [k \in {"x"} |-> NaN] },
        raw \in RawInputs }

EnrichTelemetry ==
    /\ call_pc = "start"
    /\ call_ret' = enrich_telemetry(call_arg.t, call_arg.node_id, call_arg.now)
    /\ call_pc' = "returned"
    /\ UNCHANGED <<call_arg, server_vars, vm_vars, rt_vars>>

EnrichInit ==
    /\ ServerInit /\ VmIdle /\ RtIdle
    /\ call_arg \in [t : EnrichRecords, node_id : {"", "node-1"}, now : BuildClock]
    /\ call_ret = DefaultTelemetry
    /\ call_pc = "start"

SpecEnrich == EnrichInit /\ [][EnrichTelemetry]_vars

\* ------------------------------------------------------ create_telemetry_from_json
\* Largest number of members of the top-level object of a JSON text.
MaxMembers == 2

\* A JSON text is the sequence of its tokens.
Tok(t, str, n) == [t |-> t, s |-> str, n |-> n]
Punct(t) == Tok(t, "", 0)

\* The values a text is written from: numbers, a string, null, true, the
\* array [3] and the object {"a": 4}.
JsonValues ==
    { [kind |-> "num", n |-> 1], [kind |-> "num", n |-> 2], [kind |-> "str", n |-> 0],
      [kind |-> "null", n |-> 0], [kind |-> "true", n |-> 0],
      [kind |-> "array", n |-> 3], [kind |-> "object", n |-> 4] }
JsonNames == {"a", "b"}
JsonMembers == [name : JsonNames, v : JsonValues]
\* A document: a top-level object with its members as written, or another value.
JsonDocs ==
    [is_object : {TRUE}, v : {[kind |-> "null", n |-> 0]},
     members : UNION { [1 .. n -> JsonMembers] : n \in 0 .. MaxMembers }]
    \cup [is_object : {FALSE}, v : JsonValues \ {[kind |-> "object", n |-> 4]}, members : {<<>>}]

write_value(v) ==
    CASE v.kind = "num" -> <<Tok("num", "", v.n)>>
      [] v.kind = "str" -> <<Tok("str", "hi", 0)>>
      [] v.kind = "null" -> <<Punct("null")>>
      [] v.kind = "true" -> <<Punct("true")>>
      [] v.kind = "array" -> <<Punct("["), Tok("num", "", v.n), Punct("]")>>
      [] v.kind = "object" -> <<Punct("{"), Tok("str", "a", 0), Punct(":"), Tok("num", "", v.n), Punct("}")>>

RECURSIVE write_members(_)
write_members(ms) ==
    IF ms = <<>> THEN <<>>
    ELSE <<Tok("str", Head(ms).name, 0), Punct(":")>> \o write_value(Head(ms).v)
         \o (IF Tail(ms) = <<>> THEN <<>> ELSE <<Punct(",")>>)
         \o write_members(Tail(ms))

\* The text of a document.
write_doc(doc) ==
    IF doc.is_object THEN <<Punct("{")>> \o write_members(doc.members) \o <<Punct("}")>>
    ELSE write_value(doc.v)

\* serde_json::from_str::<Value> on a valid text.  The index after the
\* brackets opened before tokens[i] are closed.
RECURSIVE skip_nested(_, _, _)
skip_nested(tokens, i, depth) ==
    IF depth = 0 THEN i
    ELSE IF tokens[i].t \in {"[", "{"} THEN skip_nested(tokens, i + 1, depth + 1)
    ELSE IF tokens[i].t \in {"]", "}"} THEN skip_nested(tokens, i + 1, depth - 1)
    ELSE skip_nested(tokens, i + 1, depth)

\* The index after the value that starts at tokens[i].
value_end(tokens, i) ==
    IF tokens[i].t \in {"[", "{"} THEN skip_nested(tokens, i + 1, 1) ELSE i + 1

\* The value that starts at tokens[i]: its type, and its number if it is one.
value_at(tokens, i) == [type |-> tokens[i].t, n |-> tokens[i].n]

\* Map::insert: a name already in the object gets the new value.
map_insert(obj, name, v) == [x \in DOMAIN obj \cup {name} |-> IF x = name THEN v ELSE obj[x]]

EmptyObject == [x \in {} |-> [type |-> "null", n |-> 0]]

\* The members of the object whose next member, or closing brace, is at
\* tokens[i].
RECURSIVE parse_members(_, _, _)
parse_members(tokens, i, obj) ==
    IF tokens[i].t = "}" THEN obj
    ELSE LET j == value_end(tokens, i + 2) IN
         parse_members(tokens,
                       IF tokens[j].t = "," THEN j + 1 ELSE j,
                       map_insert(obj, tokens[i].s, value_at(tokens, i + 2)))

from_str(tokens) ==
    IF tokens[1].t = "{" THEN [is_object |-> TRUE, members |-> parse_members(tokens, 2, EmptyObject)]
    ELSE [is_object |-> FALSE, members |-> EmptyObject]

\* Value::as_f64 as a bug would have it: true counts as the number 1.
as_f64_bool(v) ==
    IF v.type = "num" THEN Some(v.n) ELSE IF v.type = "true" THEN Some(1) ELSE None

\* Value::as_f64: the number of a number, None for any other value.
as_f64(v) == IF v.type = "num" THEN Some(v.n) ELSE None

\* now: chrono::Utc::now().timestamp_millis() at the call.
create_telemetry_from_json(json_data, device_id, now) ==
    LET parsed == from_str(json_data)
        numeric == IF parsed.is_object
                   THEN {k \in DOMAIN parsed.members : as_f64(parsed.members[k]).some}
                   ELSE {}
    IN  Telemetry(device_id,
                  now,
                  [k \in numeric |-> Fin(as_f64(parsed.members[k]).v)],
                  json_data)

CreateTelemetryFromJson ==
    /\ call_pc = "start"
    /\ call_ret' = create_telemetry_from_json(call_arg.json_data, call_arg.device_id, call_arg.now)
    /\ call_pc' = "returned"
    /\ UNCHANGED <<call_arg, server_vars, vm_vars, rt_vars>>

\* doc is the document json_data is the text of.
JsonInit ==
    /\ ServerInit /\ VmIdle /\ RtIdle
    /\ \E doc \in JsonDocs, d \in {"", "test-device"}, now \in BuildClock :
        call_arg = [doc |-> doc, json_data |-> write_doc(doc), device_id |-> d, now |-> now]
    /\ call_ret = DefaultTelemetry
    /\ call_pc = "start"

SpecJson == JsonInit /\ [][CreateTelemetryFromJson]_vars

\* ====================================================== properties

Received(r) == pc[r] # "idle"
Answered(r) == resp[r].status # 0
\* The positions of request r's messages in the topic.
Published(r) == {i \in DOMAIN log : log[i].req = r}
\* A hard per-metric failure: a battery_level outside [0, 100] or an empty name.
HardMetricFailure(m) ==
    \/ "" \in DOMAIN m
    \/ "battery_level" \in DOMAIN m /\ ~RangeContains(0, 100, m["battery_level"])
DeliveryFailed(r) == delivery[r] \in DeliveryErrors \cup {"QueueFull"}

\* C1: a request whose device_id is empty or whose metrics are empty is
\* answered 400 and nothing of it ever reaches the producer or the topic:
\* send_message is not invoked for it, whatever the other requests and the
\* broker are doing.
C1_InvalidRequestRejectedWithoutSend ==
    \A r \in Reqs :
        Received(r) /\ (req[r].device_id = "" \/ is_empty(req[r].metrics))
        => /\ resp[r].status = 400
           /\ sends[r] = 0
           /\ ~queue[r].full
           /\ delivery[r] = "none"
           /\ Published(r) = {}

\* A request with an empty device_id has been rejected while another request's
\* message is with the producer.
C1_Witness ==
    \E r, q \in Reqs :
        /\ r # q
        /\ pc[r] = "done" /\ req[r].device_id = "" /\ ~is_empty(req[r].metrics)
        /\ resp[r].status = 400
        /\ queue[q].full

\* C2 (as the specification states it): a request with a device id whose
\* metrics hold a hard per-metric failure is rejected whole: no message is
\* sent for it and its answer is 400.
C2_HardMetricFailureRejected ==
    \A r \in Reqs :
        Received(r) /\ req[r].device_id # "" /\ HardMetricFailure(req[r].metrics)
        => /\ sends[r] = 0
           /\ Published(r) = {}
           /\ (Answered(r) => resp[r].status = 400)

\* C3: a request whose delivery failed is answered 500 after exactly one
\* invocation of send_message; no request is ever sent twice; and once it is
\* answered neither the handler nor the producer holds anything of the record.
C3_DeliveryFailureDiscardsRecord ==
    \A r \in Reqs :
        /\ sends[r] <= 1
        /\ pc[r] = "done" /\ DeliveryFailed(r)
           => /\ resp[r].status = 500
              /\ sends[r] = 1
              /\ ~held[r].live
              /\ ~queue[r].full
        /\ resp[r].status = 500 => DeliveryFailed(r)

\* A request whose delivery timed out has been answered 500.
C3_Witness ==
    \E r \in Reqs :
        pc[r] = "done" /\ delivery[r] = "Timeout" /\ resp[r].status = 500 /\ sends[r] = 1

\* C4: every step that answers a request 200 starts in a state where the
\* broker has already acknowledged that request's message (the message is in
\* the topic and the delivery resolved to the acknowledgment), and the answer
\* carries success and the request's device_id.
C4_AckPrecedes200 ==
    [][\A r \in Reqs :
          resp'[r].status = 200 /\ resp[r].status # 200
          => /\ delivery[r] = "acked"
             /\ Published(r) # {}
             /\ resp'[r].success
             /\ resp'[r].device_id = req[r].device_id]_vars

\* A request has been answered 200.
C4_Witness ==
    \E r \in Reqs : resp[r].status = 200 /\ delivery[r] = "acked" /\ Published(r) # {}

\* The record a message carries is the one built from request r: same device
\* id, metrics and raw, and the request's ts or else the clock at receipt.
CarriesRecordOf(payload, r) ==
    LET t == decode(payload) IN
    /\ t.device_id = req[r].device_id
    /\ t.metrics = req[r].metrics
    /\ IF req[r].ts.some THEN t.ts = req[r].ts.v ELSE t.ts \in Clock
    /\ t.raw = (IF req[r].raw.some THEN req[r].raw.v ELSE <<>>)

\* C5: a request has at most one message, in the producer's queue or in the
\* topic; the message's key is the request's device_id and its value decodes
\* to the record built from that request; so every message of the topic is
\* keyed by the device_id of the record it carries.
C5_OneMessageKeyedByDeviceId ==
    /\ \A r \in Reqs :
        /\ Cardinality(Published(r)) + (IF queue[r].full THEN 1 ELSE 0) <= 1
        /\ Cardinality(Published(r)) + (IF queue[r].full THEN 1 ELSE 0) <= sends[r]
        /\ queue[r].full
           => queue[r].key = req[r].device_id /\ CarriesRecordOf(queue[r].payload, r)
    /\ \A i \in DOMAIN log :
        /\ log[i].key = req[log[i].req].device_id
        /\ CarriesRecordOf(log[i].payload, log[i].req)
        /\ log[i].key = decode(log[i].payload).device_id

\* Two requests' messages are in the topic, one of them with two metrics.
C5_Witness ==
    /\ Len(log) = 2
    /\ log[1].req # log[2].req
    /\ \E i \in DOMAIN log : Cardinality(DOMAIN decode(log[i].payload).metrics) = 2

\* C6 (as the specification states it): an answered request's response names
\* the first condition that holds in the order missing device id, empty
\* metrics, per-metric failure, delivery failure, and no message is sent once
\* one of the first three holds.
C6_ErrorPrecedence ==
    \A r \in Reqs :
        Received(r) =>
            IF req[r].device_id = "" THEN
                /\ sends[r] = 0
                /\ resp[r].status = 400 /\ resp[r].error = "device_id is required"
            ELSE IF is_empty(req[r].metrics) THEN
                /\ sends[r] = 0
                /\ resp[r].status = 400 /\ resp[r].error = "metrics cannot be empty"
            ELSE IF HardMetricFailure(req[r].metrics) THEN
                /\ sends[r] = 0
                /\ resp[r].status = 400
            ELSE IF DeliveryFailed(r) /\ Answered(r) THEN
                resp[r].status = 500
            ELSE TRUE

\* C8: decoding what encode produced gives back the record's device_id,
\* timestamp and metrics (same keys, same values), in whatever order the
\* metrics entries were written.
C8_RoundTrip ==
    rt_pc = "decoded"
    => /\ rt_decoded.device_id = rt_record.device_id
       /\ rt_decoded.ts = rt_record.ts
       /\ DOMAIN rt_decoded.metrics = DOMAIN rt_record.metrics
       /\ \A k \in DOMAIN rt_record.metrics : rt_decoded.metrics[k] = rt_record.metrics[k]

\* A record with a negative timestamp and two metrics, written in an order
\* that starts with battery_level, has been decoded.
C8_Witness ==
    /\ rt_pc = "decoded"
    /\ rt_record.ts < 0
    /\ Cardinality(DOMAIN rt_record.metrics) = 2
    /\ \E i \in DOMAIN rt_bytes :
        /\ rt_bytes[i].tag = 3 /\ rt_bytes[i].str = "battery_level"
        /\ \E j \in DOMAIN rt_bytes : j > i /\ rt_bytes[j].tag = 3

Returned == vm_result.kind \in {"Ok", "Err"}
BatteryError == Err("Battery level must be between 0-100%", "")
\* v is strictly below lo or strictly above hi (an infinity is; NaN is not).
StrictlyOutside(lo, hi, v) ==
    \/ v.cls = "finite" /\ (v.n < lo \/ v.n > hi)
    \/ v.cls = "inf"

\* C9: validate_metrics returns an error for every mapping whose
\* battery_level is strictly below 0 or strictly above 100, in whatever order
\* it visits the entries, and never returns the battery error when
\* battery_level is exactly 0 or exactly 100.
C9_BatteryRangeInclusive ==
    Returned /\ "battery_level" \in DOMAIN vm_metrics
    => /\ StrictlyOutside(0, 100, vm_metrics["battery_level"]) => vm_result.kind = "Err"
       /\ vm_metrics["battery_level"] \in {Fin(0), Fin(100)} => vm_result # BatteryError
       /\ vm_metrics["battery_level"] \in {Fin(0), Fin(100)}
            /\ (\A k \in DOMAIN vm_metrics : k # "" /\ is_finite(vm_metrics[k]))
          => vm_result = Ok

\* A mapping whose battery_level is exactly 100, next to another entry, has
\* been accepted.
C9_Witness ==
    /\ vm_result = Ok
    /\ Cardinality(DOMAIN vm_metrics) = 2
    /\ "battery_level" \in DOMAIN vm_metrics
    /\ vm_metrics["battery_level"] = Fin(100)

\* C10: a mapping whose names are non-empty, whose values are finite and
\* whose battery_level, if any, is within [0, 100] is accepted, whatever its
\* temperature and humidity are.
C10_TemperatureHumidityNeverFail ==
    /\ Returned
    /\ \A k \in DOMAIN vm_metrics : k # "" /\ is_finite(vm_metrics[k])
    /\ "battery_level" \in DOMAIN vm_metrics => RangeContains(0, 100, vm_metrics["battery_level"])
    => vm_result = Ok

\* A mapping with temperature 999 and humidity -1 has been accepted, with a
\* warning for each.
C10_Witness ==
    /\ vm_result = Ok
    /\ DOMAIN vm_metrics = {"temperature", "humidity"}
    /\ vm_metrics["temperature"] = Fin(999)
    /\ vm_metrics["humidity"] = Fin(-1)
    /\ vm_warned = {"temperature", "humidity"}

NonFiniteKeys(m) == {k \in DOMAIN m : ~is_finite(m[k])}
\* The entries the loop body returns an error for.
FaultyKeys(m) == {k \in DOMAIN m : entry_error(k, m[k]) # Ok}
NonFiniteError(k) == Err("Invalid metric value", k)
StructuralErrors ==
    {Err("Metric name cannot be empty", "")} \cup {NonFiniteError(k) : k \in ValidateKeys}

C17_StructuralBeforeRange ==
    /\ Returned
    /\ "battery_level" \in DOMAIN vm_metrics
    /\ is_finite(vm_metrics["battery_level"])
    /\ ~RangeContains(0, 100, vm_metrics["battery_level"])
    /\ ("" \in DOMAIN vm_metrics \/ NonFiniteKeys(vm_metrics) # {})
    => vm_result \in StructuralErrors

\* C18: a request answered 500 had a device id and metrics, send_message was
\* invoked for it and the delivery failed; the 500 never carries one of
\* handle_telemetry's own validation errors.
C18_No500FromValidation ==
    \A r \in Reqs :
        resp[r].status = 500
        => /\ req[r].device_id # ""
           /\ ~is_empty(req[r].metrics)
           /\ sends[r] = 1
           /\ DeliveryFailed(r)
           /\ resp[r].details \in DeliveryErrors \cup {"QueueFull"}
           /\ resp[r].details \notin {"Device ID cannot be empty", "Metrics cannot be empty"}

\* A request whose write the broker refused has been answered 500, while
\* another request with an empty device id was answered 400.
C18_Witness ==
    \E r, q \in Reqs :
        /\ resp[r].status = 500 /\ resp[r].details = "Rejected"
        /\ req[q].device_id = "" /\ resp[q].status = 400

\* C12: the record built from a request has the request's device_id and
\* metrics unchanged, carries the request's ts when one is supplied and the
\* clock at receipt otherwise, and carries the supplied raw bytes when some
\* are supplied and no bytes otherwise.
C12_RecordBuiltFromRequest ==
    call_pc = "returned"
    => /\ call_ret.device_id = call_arg.payload.device_id
       /\ call_ret.metrics = call_arg.payload.metrics
       /\ call_arg.payload.ts.some => call_ret.ts = call_arg.payload.ts.v
       /\ ~call_arg.payload.ts.some => call_ret.ts = call_arg.now
       /\ call_arg.payload.raw.some => call_ret.raw = call_arg.payload.raw.v
       /\ ~call_arg.payload.raw.some => call_ret.raw = <<>>

\* A record has been built from a request that supplies the ts 0 and raw
\* bytes, at a clock other than 0.
C12_Witness ==
    /\ call_pc = "returned"
    /\ call_arg.payload.ts = Some(0) /\ call_ret.ts = 0
    /\ call_arg.payload.raw.some /\ call_ret.raw = <<7, 255>>
    /\ call_arg.now = 1001

\* C13: enrich_telemetry returns, for every record and node id, a record with
\* the input's device_id, timestamp and metrics, whose raw is empty or the
\* envelope of the ingestion time, the node id and the original raw as text:
\* one code point or U+FFFD per byte sequence, the bytes themselves when they
\* are all ASCII.
C13_EnrichChangesOnlyRaw ==
    call_pc = "returned"
    => /\ call_ret.device_id = call_arg.t.device_id
       /\ call_ret.ts = call_arg.t.ts
       /\ call_ret.metrics = call_arg.t.metrics
       /\ \/ call_ret.raw = <<>>
          \/ /\ Len(call_ret.raw) = 3
             /\ call_ret.raw[1].name = "ingested_at" /\ call_ret.raw[1].int = call_arg.now
             /\ call_ret.raw[2].name = "ingestion_node" /\ call_ret.raw[2].str = call_arg.node_id
             /\ call_ret.raw[3].name = "original_raw"
             /\ Len(call_ret.raw[3].chars) <= Len(call_arg.t.raw)
             /\ \A i \in DOMAIN call_ret.raw[3].chars :
                    call_ret.raw[3].chars[i] \in {65, 233, 65533}
             /\ (\A i \in DOMAIN call_arg.t.raw : call_arg.t.raw[i] < 128)
                => call_ret.raw[3].chars = call_arg.t.raw

\* A record whose raw bytes are not valid UTF-8 has been enriched: the
\* envelope holds the replacement character.
C13_Witness ==
    /\ call_pc = "returned"
    /\ call_arg.t.raw = <<65, 255>>
    /\ Len(call_ret.raw) = 3
    /\ call_ret.raw[3].chars = <<65, 65533>>
    /\ call_arg.t.ts # call_arg.now

\* The positions of the top-level members of the document with a numeric value.
NumericMembers(doc) == {i \in DOMAIN doc.members : doc.members[i].v.kind = "num"}
\* The last position at which each name is written.
LastOccurrences(doc) ==
    {i \in DOMAIN doc.members :
        \A j \in DOMAIN doc.members : doc.members[j].name = doc.members[i].name => j <= i}

\* C19 (as the specification states it): the record has the given device id
\* and the text as raw, and its metrics are exactly the top-level members of
\* the text that have a numeric value, under their names and with their
\* values; a text that is no object gives no metrics.
C19_MetricsAreNumericMembers ==
    call_pc = "returned"
    => /\ call_ret.device_id = call_arg.device_id
       /\ call_ret.raw = call_arg.json_data
       /\ DOMAIN call_ret.metrics
            = {call_arg.doc.members[i].name : i \in NumericMembers(call_arg.doc)}
       /\ \A i \in NumericMembers(call_arg.doc) :
            call_ret.metrics[call_arg.doc.members[i].name] = Fin(call_arg.doc.members[i].v.n)

\* C19 (amended): the same, with a name that is written more than once
\* counting by its last occurrence only.
C19_MetricsAreLastNumericMembers ==
    call_pc = "returned"
    => /\ call_ret.device_id = call_arg.device_id
       /\ call_ret.raw = call_arg.json_data
       /\ DOMAIN call_ret.metrics
            = {call_arg.doc.members[i].name :
                 i \in NumericMembers(call_arg.doc) \cap LastOccurrences(call_arg.doc)}
       /\ \A i \in NumericMembers(call_arg.doc) \cap LastOccurrences(call_arg.doc) :
            call_ret.metrics[call_arg.doc.members[i].name] = Fin(call_arg.doc.members[i].v.n)
       /\ ~call_arg.doc.is_object => call_ret.metrics = EmptyMetrics

\* The text {"a": {"a": 4}, "b": 2} has given the single metric b = 2.
C19_Witness ==
    /\ call_pc = "returned"
    /\ Len(call_arg.doc.members) = 2
    /\ call_arg.doc.members[1] = [name |-> "a", v |-> [kind |-> "object", n |-> 4]]
    /\ call_arg.doc.members[2] = [name |-> "b", v |-> [kind |-> "num", n |-> 2]]
    /\ DOMAIN call_ret.metrics = {"b"}
    /\ call_ret.metrics["b"] = Fin(2)
    /\ call_ret.device_id = "test-device"

\* The response the handler of r gives for r's own payload and r's own
\* delivery.
OwnResponse(r) ==
    IF req[r].device_id = "" THEN ErrorResponse(400, "device_id is required", "")
    ELSE IF is_empty(req[r].metrics) THEN ErrorResponse(400, "metrics cannot be empty", "")
    ELSE IF delivery[r] = "acked" THEN TelemetryResponse(req[r].device_id)
    ELSE ErrorResponse(500, "Failed to process telemetry", delivery[r])

\* C14: no order is enforced between requests: whenever the messages of two
\* requests are with the producer, either of them can be the next one the
\* broker takes, whichever was received first; and the response of every
\* answered request is the one its own payload and its own delivery outcome
\* determine, whatever the other requests are or did.
C14_NoCrossRequestOrdering ==
    /\ \A r, q \in Reqs :
        queue[r].full /\ queue[q].full => ENABLED BrokerAck(r) /\ ENABLED BrokerAck(q)
    /\ \A r \in Reqs : Answered(r) => resp[r] = OwnResponse(r)

\* Two valid requests of the same device, both answered 200, with the message
\* of the second in the topic before the message of the first.
C14_Witness ==
    /\ Len(log) = 2
    /\ log[1].req = 2 /\ log[2].req = 1
    /\ log[1].key = log[2].key
    /\ req[1].device_id = req[2].device_id
    /\ resp[1].status = 200 /\ resp[2].status = 200

\* C15: a request cancelled while it waits for the delivery never gets a
\* response; its message can still be taken by the broker; once the producer
\* is done with the message the dropped delivery handle holds no result and the
\* handler holds no record; and the message does not stay with the producer
\* forever.
C15_CancelledDeliveryDiscarded ==
    /\ [](\A r \in Reqs : pc[r] = "cancelled" =>
            /\ resp[r] = NoResponse
            /\ delivery[r] = "dropped"
            /\ ~held[r].live
            /\ queue[r].full => ENABLED BrokerAck(r))
    /\ [][\A r \in Reqs : pc[r] = "cancelled" => pc'[r] = "cancelled"]_vars
    /\ \A r \in Reqs : (pc[r] = "cancelled" /\ queue[r].full) ~> ~queue[r].full

\* A cancelled request whose message reached the topic all the same.
C15_Witness ==
    \E r \in Reqs :
        /\ pc[r] = "cancelled"
        /\ Published(r) # {}
        /\ ~queue[r].full
        /\ resp[r] = NoResponse

\* C16: every received request is in the end answered or cancelled; an
\* answered request has exactly one of the statuses 200, 400 and 500, 200 only
\* for an acknowledged delivery and 500 only for a failed one; and a response,
\* once given, never changes.
C16_EventuallyOneOutcome ==
    /\ \A r \in Reqs : Received(r) ~> (Answered(r) \/ pc[r] = "cancelled")
    /\ [](\A r \in Reqs :
            /\ pc[r] = "done" <=> Answered(r)
            /\ resp[r].status \in {0, 200, 400, 500}
            /\ resp[r].status = 200 => delivery[r] = "acked"
            /\ resp[r].status = 500 => DeliveryFailed(r))
    /\ [][\A r \in Reqs : Answered(r) => resp'[r] = resp[r] /\ pc'[r] = pc[r]]_vars

\* A request that waited for its delivery and was answered 500 after the
\* delivery timed out.
C16_Witness ==
    \E r \in Reqs :
        /\ pc[r] = "done"
        /\ delivery[r] = "Timeout"
        /\ resp[r].status = 500
        /\ sends[r] = 1

====
